---- MODULE Spec2Model ----
(***************************************************************************)
(* Deep reactive transformation of knockout-decorators                    *)
(* (src/src/observable-property.ts): defineObservableProperty,            *)
(* prepareReactiveValue and prepareReactiveObject, modelled over a small  *)
(* JavaScript heap (prototypes, own property descriptors, integrity       *)
(* levels) with an explicit call stack, one action per statement group.   *)
(***************************************************************************)
EXTENDS Integers, Sequences, FiniteSets, TLC

\* ---------------------------------------------------------------- bounds
\* deepest call stack the model follows (the code has no such limit)
MaxStack == 8
\* cap of the bookkeeping counters (calls per object / per property)
MaxCount == 3
\* statements of user code per behaviour (assignments, freezes, slot writes)
MaxOps == 3

\* ---------------------------------------------------------------- universe
\* the objects user code allocates and may write into reactive slots
Objs == {"a", "b"}
\* the view model: a class instance whose property "field" is a deep slot
Host == "vm"
AllObjs == Objs \cup {Host}
\* the one array of the universe (its elements are primitives)
Arrs == {"arr"}
\* what getPrototypeOf can return for the objects of the universe
Protos == {"Object", "null", "Model"}
\* Object.preventExtensions < Object.seal < Object.freeze
Levels == <<"ext", "nonext", "sealed", "frozen">>

PATCHED_KEY == "__patched__"
UserKeys == {"constructor", "foo"}

\* values user code assigns to a property
AssignVals(k) ==
    IF k = "constructor" THEN {"x", "ObjectFn"}
    ELSE {"x", "null"} \cup Arrs \cup Objs

\* ---------------------------------------------------------------- JS helpers
\* typeof value
typeOf(v) ==
    IF v \in AllObjs \cup Arrs \cup {"null"} THEN "object"
    ELSE IF v \in {"ObjectFn", "ModelFn", "ViewModelFn"} THEN "function"
    ELSE IF v = "undefined" THEN "undefined"
    ELSE IF v = "true" THEN "boolean"
    ELSE "string"

\* Array.isArray(value)
isArray(v) == v \in Arrs

\* position of an integrity level
LevelOf(h, o) == CHOOSE i \in 1..4 : Levels[i] = h[o].integ

isExtensible(h, o) == h[o].integ = "ext"

\* hasOwnProperty(obj, key)
hasOwnProperty(h, o, k) == k \in DOMAIN h[o].desc

\* getPrototypeOf(obj)
getPrototypeOf(h, o) == h[o].proto

\* the own property descriptor as Object.getOwnPropertyDescriptor reports it:
\* seal and freeze clear configurable, freeze clears writable of data properties
descriptorOf(h, o, k) ==
    LET d == h[o].desc[k] IN
    [d EXCEPT !.conf = d.conf /\ LevelOf(h, o) < 3,
              !.writable = d.writable /\ LevelOf(h, o) < 4]

\* obj[key]: own property (data value, or the getter's cell value), else the
\* prototype chain; only "constructor" is inherited in this universe
Get(h, o, k) ==
    IF hasOwnProperty(h, o, k) THEN h[o].desc[k].val
    ELSE IF k = "constructor" THEN
        CASE h[o].proto = "Object" -> "ObjectFn"
          [] h[o].proto = "Model" -> "ModelFn"
          [] h[o].proto = "ViewModel" -> "ViewModelFn"
          [] OTHER -> "undefined"
    ELSE "undefined"

\* Object.keys(obj): own enumerable keys in insertion order
RECURSIVE FilterEnum(_, _, _)
FilterEnum(h, o, ks) ==
    IF ks = <<>> THEN <<>>
    ELSE IF h[o].desc[Head(ks)].enum
         THEN <<Head(ks)>> \o FilterEnum(h, o, Tail(ks))
         ELSE FilterEnum(h, o, Tail(ks))

objectKeys(h, o) == FilterEnum(h, o, h[o].keys)

\* a data property created by assignment
DataDescriptor(v) ==
    [kind |-> "data", enum |-> TRUE, conf |-> TRUE, writable |-> TRUE, val |-> v]

\* Object.defineProperty raises a TypeError: a new key on a non-extensible
\* object, or a different descriptor for a non-configurable property
definePropertyThrows(h, o, k, d) ==
    IF hasOwnProperty(h, o, k)
    THEN ~descriptorOf(h, o, k).conf /\ descriptorOf(h, o, k) # d
    ELSE ~isExtensible(h, o)

\* Object.defineProperty when it succeeds: the key keeps its position
defineProperty(h, o, k, d) ==
    [h EXCEPT ![o] = [@ EXCEPT
        !.keys = IF hasOwnProperty(h, o, k) THEN @ ELSE Append(@, k),
        !.desc = [kk \in (DOMAIN @) \cup {k} |-> IF kk = k THEN d ELSE @[kk]]]]

\* ---------------------------------------------------------------- the code
\* variant: the marker is defined enumerable
MarkerDescriptor_enumerable ==
    [kind |-> "data", enum |-> TRUE, conf |-> TRUE, writable |-> FALSE, val |-> "true"]

\* the descriptor prepareReactiveObject defines under PATCHED_KEY;
\* enumerable and writable take defineProperty's defaults
MarkerDescriptor ==
    [kind |-> "data", enum |-> FALSE, conf |-> TRUE, writable |-> FALSE, val |-> "true"]

\* variant: the accessor is defined without enumerable: true
AccessorDescriptor_hidden ==
    [kind |-> "cell", enum |-> FALSE, conf |-> TRUE, writable |-> FALSE, val |-> "undefined"]

\* the descriptor defineObservableProperty installs; val is the content of the
\* fresh ko.observable(), undefined until the first write
AccessorDescriptor ==
    [kind |-> "cell", enum |-> TRUE, conf |-> TRUE, writable |-> FALSE, val |-> "undefined"]

\* the descriptor defineObservableArray installs
SequenceDescriptor ==
    [kind |-> "seq", enum |-> TRUE, conf |-> TRUE, writable |-> FALSE, val |-> "undefined"]

\* variant: the guard looks for the marker nowhere
isPatched_never(h, o) == FALSE

\* variant: the negation of the guard is lost
isPatched_inverted(h, o) == ~hasOwnProperty(h, o, PATCHED_KEY)

\* the guard of prepareReactiveObject
isPatched(h, o) == hasOwnProperty(h, o, PATCHED_KEY)

\* prepareReactiveValue hands the value to prepareReactiveObject
isPlainObject(h, v) ==
    /\ typeOf(v) = "object"
    /\ ~(isArray(v) \/ v = "null")
    /\ \/ Get(h, v, "constructor") = "ObjectFn"
       \/ /\ hasOwnProperty(h, v, "constructor")
          /\ getPrototypeOf(h, v) \in {"Object", "null"}

\* variant: the setter is the observable itself whatever deep says
setterPrepares_shallow(deep, h, v) == FALSE

\* the setter of defineObservableProperty: with deep set it stores
\* prepareReactiveValue(newValue), else it is the observable itself
setterPrepares(deep, h, v) == deep /\ isPlainObject(h, v)

\* variant: the marker is recorded without defineProperty, nothing raises
markThrows_never(h, o) == FALSE

\* defining the marker raises on a record that cannot take it
markThrows(h, o) == definePropertyThrows(h, o, PATCHED_KEY, MarkerDescriptor)

\* variant: the marker is not defined
markInstance_skipped(h, o) == h

\* defineProperty(instance, PATCHED_KEY, { configurable: true, value: true })
markInstance(h, o) == defineProperty(h, o, PATCHED_KEY, MarkerDescriptor)

\* applyExtenders(instance, key, observable): one more call recorded
applyExtenders(e, o, k) ==
    [e EXCEPT ![o][k] = IF @ < MaxCount THEN @ + 1 ELSE @]

\* variant: const observable = ko.observable()
extendObservable_skipped(e, o, k) == e

\* const observable = applyExtenders(instance, key, ko.observable())
extendObservable(e, o, k) == applyExtenders(e, o, k)

\* ko.observable(): one more cell created for the property
koObservable(c, o, k) ==
    [c EXCEPT ![o][k] = IF @ < MaxCount THEN @ + 1 ELSE @]

\* ---------------------------------------------------------------- state
VARIABLES
    heap,       \* object -> [proto, integ, keys, desc]
    patchedArr, \* arrays that defineObservableArray turned into sequences
    stack,      \* call stack, innermost frame last
    op,         \* the write in progress or last finished
    entered,    \* object -> times prepareReactiveObject instrumented it
    cells,      \* object -> key -> cells created
    extended,   \* object -> key -> applyExtenders calls
    snap,       \* object -> own enumerable (key, value) pairs when marked
    nops        \* statements of user code executed so far

vars == <<heap, patchedArr, stack, op, entered, cells, extended, snap, nops>>

AllKeys == UserKeys \cup {PATCHED_KEY, "field"}

\* a frame of the call stack; deep is the fourth argument of
\* defineObservableProperty, captured by the setter it creates
Frame(fn, o, k, v, pc, todo) ==
    [fn |-> fn, obj |-> o, key |-> k, val |-> v, pc |-> pc, todo |-> todo,
     deep |-> TRUE]

\* no write through a setter since the last statement of user code
IdleOp ==
    [status |-> "idle", obj |-> Host, key |-> "field", val |-> "null",
     old |-> "null", patched |-> FALSE, marked |-> {}]

Top == stack[Len(stack)]
Pop == SubSeq(stack, 1, Len(stack) - 1)
ReplaceTop(f) == [stack EXCEPT ![Len(stack)] = f]

\* a freshly allocated object without own properties
NewObject(proto) ==
    [proto |-> proto, integ |-> "ext", keys |-> <<>>, desc |-> <<>>]

\* the view model after construction: "field" is a deep slot holding null,
\* installed by defineObservableProperty(vm, "field", null, true)
HostObject ==
    [proto |-> "ViewModel", integ |-> "ext", keys |-> <<"field">>,
     desc |-> [k \in {"field"} |-> [AccessorDescriptor EXCEPT !.val = "null"]]]

Init ==
    /\ \E p \in [Objs -> Protos] :
          heap = [o \in AllObjs |-> IF o = Host THEN HostObject ELSE NewObject(p[o])]
    /\ patchedArr = {}
    /\ stack = <<>>
    /\ op = IdleOp
    /\ entered = [o \in AllObjs |-> 0]
    /\ cells = [o \in AllObjs |-> [k \in AllKeys |-> IF o = Host /\ k = "field" THEN 1 ELSE 0]]
    /\ extended = [o \in AllObjs |-> [k \in AllKeys |-> IF o = Host /\ k = "field" THEN 1 ELSE 0]]
    /\ snap = [o \in AllObjs |-> <<>>]
    /\ nops = 0

\* ---------------------------------------------------------------- user code
\* obj[key] = value on a data property or a missing key (plain JavaScript)
Assign(o, k, v) ==
    /\ stack = <<>>
    /\ nops < MaxOps
    /\ IF hasOwnProperty(heap, o, k)
       THEN /\ heap[o].desc[k].kind = "data"
            /\ descriptorOf(heap, o, k).writable
            /\ heap' = [heap EXCEPT ![o].desc[k].val = v]
       ELSE /\ isExtensible(heap, o)
            /\ heap' = defineProperty(heap, o, k, DataDescriptor(v))
    /\ op' = IdleOp
    /\ snap' = [x \in AllObjs |-> <<>>]
    /\ nops' = nops + 1
    /\ UNCHANGED <<patchedArr, stack, entered, cells, extended>>

\* Object.preventExtensions / Object.seal / Object.freeze
SetIntegrity(o, i) ==
    /\ stack = <<>>
    /\ nops < MaxOps
    /\ i > LevelOf(heap, o)
    /\ heap' = [heap EXCEPT ![o].integ = Levels[i]]
    /\ op' = IdleOp
    /\ snap' = [x \in AllObjs |-> <<>>]
    /\ nops' = nops + 1
    /\ UNCHANGED <<patchedArr, stack, entered, cells, extended>>

\* ---------------------------------------------------------------- setter
\* obj[key] = value on a deep cell: the accessor's set function is entered
Write(o, k, v) ==
    /\ stack = <<>>
    /\ nops < MaxOps
    /\ hasOwnProperty(heap, o, k)
    /\ heap[o].desc[k].kind = "cell"
    /\ stack' = <<Frame("setter", o, k, v, "call", <<>>)>>
    /\ op' = [status |-> "running", obj |-> o, key |-> k, val |-> v,
              old |-> heap[o].desc[k].val,
              patched |-> (v \in Objs /\ hasOwnProperty(heap, v, PATCHED_KEY)),
              marked |-> {}]
    /\ snap' = [x \in AllObjs |-> <<>>]
    /\ nops' = nops + 1
    /\ UNCHANGED <<heap, patchedArr, entered, cells, extended>>

\* an uncaught TypeError unwinds every frame
Throw ==
    /\ stack' = <<>>
    /\ op' = [op EXCEPT !.status = "threw"]

\* prepareReactiveObject returns to prepareReactiveValue, which returns the
\* same object to the setter
ReturnToSetter ==
    LET s == Pop IN
    IF s = <<>> THEN s ELSE [s EXCEPT ![Len(s)] = [@ EXCEPT !.pc = "store"]]

\* prepareReactiveValue(newValue), called by the setter
prepareReactiveValue ==
    /\ stack # <<>>
    /\ Top.fn = "setter" /\ Top.pc = "call"
    /\ IF setterPrepares(Top.deep, heap, Top.val)
       THEN /\ Len(stack) < MaxStack
            /\ stack' = Append(ReplaceTop([Top EXCEPT !.pc = "wait"]),
                               Frame("pro", Top.val, "", "", "enter", <<>>))
       ELSE stack' = ReplaceTop([Top EXCEPT !.pc = "store"])
    /\ UNCHANGED <<heap, patchedArr, op, entered, cells, extended, snap, nops>>

\* observable(prepared value): the cell takes the value and the setter returns
setterStore ==
    /\ stack # <<>>
    /\ Top.fn = "setter" /\ Top.pc = "store"
    /\ heap' = [heap EXCEPT ![Top.obj].desc[Top.key].val = Top.val]
    /\ stack' = Pop
    /\ op' = IF Pop = <<>> THEN [op EXCEPT !.status = "done"] ELSE op
    /\ UNCHANGED <<patchedArr, entered, cells, extended, snap, nops>>

\* ---------------------------------------------------------------- prepareReactiveObject
\* the own enumerable (key, value) pairs of a record
RECURSIVE Pairs(_, _, _)
Pairs(h, o, ks) ==
    IF ks = <<>> THEN <<>>
    ELSE <<[key |-> Head(ks), val |-> Get(h, o, Head(ks))]>> \o Pairs(h, o, Tail(ks))

\* entry: the marker check, then the marker is defined before any property
\* is visited
prepareReactiveObject ==
    /\ stack # <<>>
    /\ Top.fn = "pro" /\ Top.pc = "enter"
    /\ LET o == Top.obj IN
       IF isPatched(heap, o)
       THEN /\ stack' = ReturnToSetter
            /\ UNCHANGED <<heap, op, entered, snap>>
       ELSE IF markThrows(heap, o)
       THEN /\ Throw
            /\ UNCHANGED <<heap, entered, snap>>
       ELSE /\ heap' = markInstance(heap, o)
            /\ entered' = [entered EXCEPT ![o] = IF @ < MaxCount THEN @ + 1 ELSE @]
            /\ snap' = [snap EXCEPT ![o] = Pairs(heap, o, objectKeys(heap, o))]
            /\ op' = [op EXCEPT !.marked = @ \cup {o}]
            /\ stack' = ReplaceTop([Top EXCEPT !.pc = "loop", !.todo = objectKeys(heap', o)])
    /\ UNCHANGED <<patchedArr, cells, extended, nops>>

\* objectForEach(instance, callback): the next own enumerable key, its value
\* read at the call; arrays go to defineObservableArray
objectForEach ==
    /\ stack # <<>>
    /\ Top.fn = "pro" /\ Top.pc = "loop"
    /\ IF Top.todo = <<>>
       THEN stack' = ReturnToSetter
       ELSE LET k == Head(Top.todo)
                v == Get(heap, Top.obj, k)
                rest == ReplaceTop([Top EXCEPT !.todo = Tail(@)])
            IN /\ Len(stack) < MaxStack
               /\ stack' = Append(rest,
                      IF isArray(v) THEN Frame("doa", Top.obj, k, v, "run", <<>>)
                      ELSE Frame("dop", Top.obj, k, v, "extend", <<>>))
    /\ UNCHANGED <<heap, patchedArr, op, entered, cells, extended, snap, nops>>

\* ---------------------------------------------------------------- defineObservableProperty
\* const observable = applyExtenders(instance, key, ko.observable())
dopExtend ==
    /\ stack # <<>>
    /\ Top.fn = "dop" /\ Top.pc = "extend"
    /\ cells' = koObservable(cells, Top.obj, Top.key)
    /\ extended' = extendObservable(extended, Top.obj, Top.key)
    /\ stack' = ReplaceTop([Top EXCEPT !.pc = "define"])
    /\ UNCHANGED <<heap, patchedArr, op, entered, snap, nops>>

\* defineProperty(instance, key, { configurable, enumerable, get, set })
dopDefine ==
    /\ stack # <<>>
    /\ Top.fn = "dop" /\ Top.pc = "define"
    /\ IF definePropertyThrows(heap, Top.obj, Top.key, AccessorDescriptor)
       THEN /\ Throw
            /\ UNCHANGED heap
       ELSE /\ heap' = defineProperty(heap, Top.obj, Top.key, AccessorDescriptor)
            /\ stack' = ReplaceTop([Top EXCEPT !.pc = "set"])
            /\ UNCHANGED op
    /\ UNCHANGED <<patchedArr, entered, cells, extended, snap, nops>>

\* setter(value): the last statement, the deep setter is entered
dopSet ==
    /\ stack # <<>>
    /\ Top.fn = "dop" /\ Top.pc = "set"
    /\ stack' = ReplaceTop(Frame("setter", Top.obj, Top.key, Top.val, "call", <<>>))
    /\ UNCHANGED <<heap, patchedArr, op, entered, cells, extended, snap, nops>>

\* ---------------------------------------------------------------- defineObservableArray
\* the array becomes the content of a tracked sequence under the key and is
\* marked; its elements are primitives and stay as they are
defineObservableArray ==
    /\ stack # <<>>
    /\ Top.fn = "doa"
    /\ cells' = koObservable(cells, Top.obj, Top.key)
    /\ extended' = applyExtenders(extended, Top.obj, Top.key)
    /\ IF definePropertyThrows(heap, Top.obj, Top.key, SequenceDescriptor)
       THEN /\ Throw
            /\ UNCHANGED <<heap, patchedArr>>
       ELSE /\ heap' = defineProperty(heap, Top.obj, Top.key,
                                     [SequenceDescriptor EXCEPT !.val = Top.val])
            /\ patchedArr' = patchedArr \cup {Top.val}
            /\ stack' = Pop
            /\ UNCHANGED op
    /\ UNCHANGED <<entered, snap, nops>>

\* ---------------------------------------------------------------- specification
Next ==
    \/ \E o \in Objs, k \in UserKeys : \E v \in AssignVals(k) : Assign(o, k, v)
    \/ \E o \in Objs, i \in 2..4 : SetIntegrity(o, i)
    \/ \E o \in AllObjs, k \in UserKeys \cup {"field"} : \E v \in AssignVals(k) : Write(o, k, v)
    \/ prepareReactiveValue
    \/ setterStore
    \/ prepareReactiveObject
    \/ objectForEach
    \/ dopExtend
    \/ dopDefine
    \/ dopSet
    \/ defineObservableArray

Spec == Init /\ [][Next]_vars

TypeOK ==
    /\ Len(stack) <= MaxStack
    /\ nops \in 0..MaxOps
    /\ op.status \in {"idle", "running", "done", "threw"}
    /\ (stack = <<>>) = (op.status # "running")

\* ---------------------------------------------------------------- vocabulary of the properties
Finished == op.status \in {"done", "threw"}

\* the object written by the last finished write, when it is one
WroteObject == Finished /\ op.val \in Objs

\* {} or any literal that inherits constructor from Object.prototype
PlainLiteral(v) == heap[v].proto = "Object" /\ ~hasOwnProperty(heap, v, "constructor")

\* { constructor: "x" }
ShadowedConstructor(v) ==
    /\ heap[v].proto = "Object"
    /\ hasOwnProperty(heap, v, "constructor")
    /\ Get(heap, v, "constructor") = "x"

\* Object.create(null) with added properties
NullPrototype(v) == heap[v].proto = "null" /\ heap[v].keys # <<>>

\* new Model()
ClassInstance(v) == heap[v].proto = "Model" /\ ~hasOwnProperty(heap, v, "constructor")

\* no own property of the object is an accessor and it carries no marker
Untouched(v) ==
    /\ ~hasOwnProperty(heap, v, PATCHED_KEY)
    /\ \A k \in DOMAIN heap[v].desc : heap[v].desc[k].kind = "data"

\* C1: of the six inputs {} , {constructor:"x"}, a null-prototype object with
\* added properties, a frozen plain object, a class instance and a frozen
\* class instance, written to a deep slot, the first four are handed to
\* prepareReactiveObject (an extensible one is marked by the write, the frozen
\* one raises) and the last two are stored as they are, unmarked, without raising
C1_ClassificationBoundary ==
    (WroteObject /\ ~op.patched /\ heap[op.val].integ \in {"ext", "frozen"}) =>
        LET v == op.val IN
        /\ (PlainLiteral(v) \/ ShadowedConstructor(v) \/ NullPrototype(v)) =>
              IF heap[v].integ = "frozen"
              THEN op.status = "threw" /\ v \notin op.marked
              ELSE v \in op.marked
        /\ ClassInstance(v) =>
              /\ op.status = "done"
              /\ v \notin op.marked
              /\ Untouched(v)
              /\ Get(heap, op.obj, op.key) = v

\* C5: a class instance (prototype neither Object.prototype nor null), frozen
\* or not, with or without an own "constructor" property, is never marked or
\* instrumented; writing it to a deep slot never raises and the slot reads
\* back the identical object
C5_ClassInstancesNeverModified ==
    /\ \A o \in Objs : heap[o].proto = "Model" => Untouched(o)
    /\ (WroteObject /\ heap[op.val].proto = "Model") =>
          /\ op.status = "done"
          /\ Get(heap, op.obj, op.key) = op.val

\* ---------------------------------------------------------------- C6
\* C6 as stated: a write of a non-extensible plain record to a deep slot never
\* completes without raising
C6_FrozenAlwaysRaises ==
    ~(/\ op.status = "done"
      /\ op.val \in Objs
      /\ isPlainObject(heap, op.val)
      /\ ~isExtensible(heap, op.val))

\* C6 amended: a write of a non-extensible plain record that did not carry the
\* marker when the write began never completes: it raises, and the record is
\* left without marker and without accessors
C6_UnmarkedFrozenRaises ==
    (/\ Finished
     /\ op.val \in Objs
     /\ isPlainObject(heap, op.val)
     /\ ~isExtensible(heap, op.val)
     /\ ~op.patched)
    => (op.status = "threw" /\ Untouched(op.val))

C6_Witness ==
    /\ op.status = "threw"
    /\ op.val \in Objs
    /\ heap[op.val].integ \in {"nonext", "sealed", "frozen"}
    /\ isPlainObject(heap, op.val)
    /\ ~op.patched
    /\ \E o \in Objs \ {op.val} : hasOwnProperty(heap, o, PATCHED_KEY)

\* ---------------------------------------------------------------- C4
\* the deep cells whose content the last write decided: the written slot and
\* the cells of the records the write instrumented
CellsOfWrite ==
    {<<op.obj, op.key>>} \cup
    {<<o, k>> \in op.marked \X UserKeys :
        hasOwnProperty(heap, o, k) /\ heap[o].desc[k].kind = "cell"}

\* C4 as stated: after a write the value readable from a deep cell is neither
\* an un-instrumented plain record nor a non-deepened array
C4_NeverRawRecordOrArray ==
    op.status = "done" =>
        \A c \in CellsOfWrite :
            LET v == Get(heap, c[1], c[2]) IN
            /\ (v \in Objs /\ isPlainObject(heap, v)) => hasOwnProperty(heap, v, PATCHED_KEY)
            /\ v \in Arrs => v \in patchedArr

\* C4 amended: every write through a deep setter stores the written value
\* itself; a value that classifies as plain record carries the marker when it
\* is stored, and for a primitive, null, array or opaque value nothing is
\* instrumented by the write (an array is stored as it is, not deepened)
C4_WriteStoresPrepared ==
    op.status = "done" =>
        /\ Get(heap, op.obj, op.key) = op.val
        /\ \A c \in CellsOfWrite :
              LET v == Get(heap, c[1], c[2]) IN
              (v \in Objs /\ isPlainObject(heap, v)) => hasOwnProperty(heap, v, PATCHED_KEY)
        /\ ~(op.val \in Objs /\ isPlainObject(heap, op.val)) =>
              /\ op.marked = {}
              /\ op.val \in Objs => (hasOwnProperty(heap, op.val, PATCHED_KEY) = op.patched)

C4_Witness ==
    /\ op.status = "done"
    /\ op.val \in Objs
    /\ op.val \in op.marked
    /\ \E k \in UserKeys :
          /\ hasOwnProperty(heap, op.val, k)
          /\ heap[op.val].desc[k].kind = "cell"
          /\ heap[op.val].desc[k].val \in Objs \ {op.val}
          /\ heap[op.val].desc[k].val \in op.marked

\* ---------------------------------------------------------------- C7
\* C7: when a write has deep-transformed records, visiting the own enumerable
\* properties of each of them yields the keys it had before, in the same
\* order, without the marker, and each key reads the value it had
C7_SerializationFidelity ==
    op.status = "done" =>
        \A o \in op.marked : Pairs(heap, o, objectKeys(heap, o)) = snap[o]

C7_Witness ==
    /\ op.status = "done"
    /\ \E o \in op.marked :
          /\ Len(snap[o]) = 2
          /\ \E i \in 1..2 : snap[o][i].val \in Objs /\ snap[o][i].val \in op.marked

\* ---------------------------------------------------------------- C8
\* C8 as stated: the marker of a marked record is an own data property that is
\* non-enumerable, non-configurable and holds true
C8_MarkerNonConfigurable ==
    \A o \in Objs :
        hasOwnProperty(heap, o, PATCHED_KEY) =>
            LET d == descriptorOf(heap, o, PATCHED_KEY) IN
            d.kind = "data" /\ ~d.enum /\ ~d.conf /\ d.val = "true"

\* C8 amended: the marker is an own data property that is non-enumerable,
\* non-writable, holds true and is defined configurable (it reads as
\* non-configurable only once the record is sealed or frozen); no step of the
\* transformer and no assignment or freeze removes or changes it
C8_MarkerPersists ==
    [][\A o \in Objs :
          /\ hasOwnProperty(heap, o, PATCHED_KEY) => hasOwnProperty(heap', o, PATCHED_KEY)
          /\ hasOwnProperty(heap', o, PATCHED_KEY) =>
                LET d == heap'[o].desc[PATCHED_KEY]
                    r == descriptorOf(heap', o, PATCHED_KEY)
                IN /\ d.kind = "data" /\ ~d.enum /\ ~d.writable /\ d.val = "true" /\ d.conf
                   /\ r.conf = (heap'[o].integ \in {"ext", "nonext"})]_vars

C8_Witness ==
    /\ op.status = "done"
    /\ \E o \in Objs :
          /\ hasOwnProperty(heap, o, PATCHED_KEY)
          /\ o \notin op.marked
          /\ heap[o].integ = "frozen"

\* ---------------------------------------------------------------- C9
IsCell(h, o, k) == hasOwnProperty(h, o, k) /\ h[o].desc[k].kind = "cell"

\* C9: every cell installed during deep transformation has passed through
\* applyExtenders exactly once, with its record and key; the call precedes the
\* installation of the accessor, and the accessor is installed while the cell
\* still holds no value
C9_ExtendersOncePerCell ==
    [][\A o \in Objs, k \in UserKeys :
          /\ IsCell(heap', o, k) => (extended'[o][k] = 1 /\ cells'[o][k] = 1)
          /\ (IsCell(heap', o, k) /\ ~IsCell(heap, o, k)) =>
                /\ extended[o][k] = 1
                /\ heap'[o].desc[k].val = "undefined"
          /\ extended'[o][k] # extended[o][k] =>
                (~IsCell(heap, o, k) /\ ~IsCell(heap', o, k))]_vars

C9_Witness ==
    /\ op.status = "done"
    /\ \E o \in Objs \ {op.val}, k \in UserKeys :
          /\ o \in op.marked
          /\ IsCell(heap, o, k)
          /\ extended[o][k] = 1
          /\ heap[o].desc[k].val # "undefined"

\* ---------------------------------------------------------------- C3
\* C3: a record is instrumented at most once and no property gets a second
\* cell; a call of prepareReactiveObject on a record that has the marker as
\* own property returns at once and leaves every object, cell and extender
\* record as it was, properties added after the first transformation included
C3_Idempotence ==
    [][/\ \A o \in Objs : entered'[o] <= 1 /\ \A k \in UserKeys : cells'[o][k] <= 1
       /\ (/\ stack # <<>>
           /\ Top.fn = "pro" /\ Top.pc = "enter"
           /\ hasOwnProperty(heap, Top.obj, PATCHED_KEY))
          => /\ heap' = heap
             /\ cells' = cells
             /\ extended' = extended
             /\ entered' = entered
             /\ Len(stack') = Len(stack) - 1]_vars

C3_Witness ==
    /\ stack # <<>>
    /\ Top.fn = "pro" /\ Top.pc = "enter"
    /\ hasOwnProperty(heap, Top.obj, PATCHED_KEY)
    /\ \E k \in UserKeys :
          /\ hasOwnProperty(heap, Top.obj, k)
          /\ heap[Top.obj].desc[k].kind = "data"

\* ---------------------------------------------------------------- C2
\* weight of the work a frame still has to do
FrameWeight(f) ==
    CASE f.fn = "setter" /\ f.pc = "call" -> 4
      [] f.fn = "setter" /\ f.pc = "wait" -> 2
      [] f.fn = "setter" /\ f.pc = "store" -> 1
      [] f.fn = "pro" /\ f.pc = "enter" -> 1
      [] f.fn = "pro" /\ f.pc = "loop" -> 1 + 8 * Len(f.todo)
      [] f.fn = "dop" /\ f.pc = "extend" -> 7
      [] f.fn = "dop" /\ f.pc = "define" -> 6
      [] f.fn = "dop" /\ f.pc = "set" -> 5
      [] OTHER -> 1

RECURSIVE StackWeight(_)
StackWeight(st) == IF st = <<>> THEN 0 ELSE FrameWeight(Head(st)) + StackWeight(Tail(st))

\* a variant of the running write: records without marker weigh more than
\* the instrumentation of all their properties
Rank(h, st) ==
    (8 * Cardinality(UserKeys) + 1) *
        Cardinality({o \in Objs : ~hasOwnProperty(h, o, PATCHED_KEY)})
    + StackWeight(st)

\* C2: a write terminates on every graph, cyclic ones included: each step of
\* the transformer lowers a natural-number variant, no record is entered for
\* instrumentation twice, the recursion is never deeper than two frames per
\* record, and when the write has finished every property of an instrumented
\* record that held an object reads the identical object (so a cyclic path
\* leads back to the same record)
C2_TerminationOnCycles ==
    [][/\ stack # <<>> => Rank(heap', stack') < Rank(heap, stack)
       /\ \A o \in Objs : entered'[o] <= 1
       /\ Len(stack') <= 2 * Cardinality(Objs) + 2
       /\ op'.status = "done" =>
             /\ Get(heap', op'.obj, op'.key) = op'.val
             /\ \A o \in op'.marked : \A i \in 1..Len(snap'[o]) :
                   snap'[o][i].val \in Objs =>
                       Get(heap', o, snap'[o][i].key) = snap'[o][i].val]_vars

\* a two-record cycle was written and reads back identical
C2_Witness ==
    /\ op.status = "done"
    /\ op.obj = Host
    /\ op.val \in op.marked
    /\ \E o \in op.marked \ {op.val} :
          /\ Get(heap, Get(heap, Host, "field"), "foo") = o
          /\ Get(heap, o, "foo") = Get(heap, Host, "field")

\* ---------------------------------------------------------------- C10
\* C10 as stated: a write that raises leaves the slot as it was and no record
\* has gained a marker or an accessor
C10_FailedWriteHasNoEffect ==
    op.status = "threw" =>
        /\ Get(heap, op.obj, op.key) = op.old
        /\ op.marked = {}

\* C10 amended: a write that raises leaves the slot's stored value as it was
\* and the non-extensible record that raised without marker and accessors;
\* the extensible records entered before it keep their marker (the write is
\* not rolled back) and each of their properties reads its original value
\* or, where the cell was installed but never written, undefined
C10_FailedWriteKeepsSlot ==
    op.status = "threw" =>
        /\ Get(heap, op.obj, op.key) = op.old
        /\ \A o \in op.marked :
              /\ isExtensible(heap, o)
              /\ hasOwnProperty(heap, o, PATCHED_KEY)
              /\ \A i \in 1..Len(snap[o]) :
                    Get(heap, o, snap[o][i].key) \in {snap[o][i].val, "undefined"}
        /\ \A o \in Objs : (~isExtensible(heap, o) /\ o \notin op.marked /\ ~hasOwnProperty(heap, o, PATCHED_KEY)) => Untouched(o)

C10_Witness ==
    /\ op.status = "threw"
    /\ op.val \in op.marked
    /\ Get(heap, op.obj, op.key) = op.old
    /\ \E k \in UserKeys : IsCell(heap, op.val, k) /\ Get(heap, op.val, k) = "undefined"

====
